---------------------------- MODULE Spec2Model ----------------------------
(***************************************************************************)
(* Diascore-App: the record/status catalog (columns, statusOptions) and    *)
(* the user session panel (UserPage.jsx) with its asynchronous sign-out    *)
(* handler.                                                                *)
(*                                                                         *)
(* The panel is a React function component.  Its render output is a pure   *)
(* function of the ambient session (user, loading) read from useAuth().    *)
(* handleSignOut is an async function: one invocation runs up to           *)
(* `await signOut(auth)`, suspends while the promise is pending, and is    *)
(* resumed on the microtask queue either after the await (navigate) or in  *)
(* the catch block (console.error).                                        *)
(***************************************************************************)
EXTENDS Integers, Sequences, FiniteSets, TLC

(***************************************************************************)
(* Bounds of the model.                                                    *)
(***************************************************************************)
\* number of handleSignOut invocations (clicks on "Log Out") explored
MaxInvocations == 3

Invocations == 1..MaxInvocations

(***************************************************************************)
(* JavaScript values.                                                      *)
(***************************************************************************)
\* undefined / null for a string-valued property
Undefined == "<undefined>"
\* null for the user object (no signed-in user)
NoUser == [isNull |-> TRUE]
\* marks a part of the view that is not in the render output at all
NotShown == "<not shown>"

\* JS truthiness of a string-or-undefined value: undefined, null and the
\* empty string are falsy, every other string is truthy.
Truthy(v) == v # Undefined /\ v # ""

\* JS `a || b`
OrElse(a, b) == IF Truthy(a) THEN a ELSE b

Emails == {"a@b.com"}
DisplayNames == {Undefined, "", "Ada", "N/A"}
Users == [email : Emails, displayName : DisplayNames]
Sessions == (Users \cup {NoUser}) \X BOOLEAN

\* errors the identity provider may reject signOut(auth) with
SignOutErrors == {"auth/network-request-failed"}

\* the route the panel is mounted on, and the fixed sign-out destination
UserPagePath == "/user"
HomePath == "/home"

(***************************************************************************)
(* Record/Status Catalog.                                                  *)
(***************************************************************************)
\* the properties of the AnswerSumRequest typedef: the data fields of a record
AnswerSumRequest ==
    {"patientName", "patient_id", "gender", "age", "birth_date",
     "text_filler_name", "diagnosisDate", "pORt", "kORs", "answers",
     "status", "avatar"}

\* mutant: the action column loses its header label
columns_BlankActionsName ==
    << [name |-> "PATIENT NAME", uid |-> "patientName"],
       [name |-> "DIAGNOSIS DATE", uid |-> "diagnosisDate"],
       [name |-> "STATUS", uid |-> "status"],
       [name |-> "", uid |-> "actions"] >>

columns ==
    << [name |-> "PATIENT NAME", uid |-> "patientName"],
       [name |-> "DIAGNOSIS DATE", uid |-> "diagnosisDate"],
       [name |-> "STATUS", uid |-> "status"],
       [name |-> "ACTIONS", uid |-> "actions"] >>

\* mutant: a copy-pasted entry keeps the uid of the entry it was copied from
statusOptions_DuplicateUid ==
    << [name |-> "COMPLETED", uid |-> "completed"],
       [name |-> "IN PROGRESS", uid |-> "in_progress"],
       [name |-> "PENDING", uid |-> "pending"],
       [name |-> "CANCELLED", uid |-> "pending"] >>

statusOptions ==
    << [name |-> "COMPLETED", uid |-> "completed"],
       [name |-> "IN PROGRESS", uid |-> "in_progress"],
       [name |-> "PENDING", uid |-> "pending"],
       [name |-> "CANCELLED", uid |-> "cancelled"] >>

(***************************************************************************)
(* Render output of the panel.                                             *)
(***************************************************************************)
\* the panel is not on screen (another route is shown)
Unmounted ==
    [mounted |-> FALSE, loadingDiv |-> FALSE, header |-> FALSE, body |-> FALSE,
     email |-> NotShown, displayName |-> NotShown,
     bodyPlaceholder |-> FALSE, signOutControl |-> FALSE]

\* mutant: the early return on `loading` is missing
UserPage_NoEarlyReturn(u, l) ==
    [mounted |-> TRUE, loadingDiv |-> FALSE, header |-> TRUE, body |-> TRUE,
     email |-> IF u # NoUser THEN u.email ELSE NotShown,
     displayName |-> IF u # NoUser THEN OrElse(u.displayName, "N/A")
                     ELSE NotShown,
     bodyPlaceholder |-> (u = NoUser),
     signOutControl |-> TRUE]

\* mutant: the display name is rendered without the `|| 'N/A'` fallback
UserPage_NoFallback(u, l) ==
    IF l
    THEN [mounted |-> TRUE, loadingDiv |-> TRUE, header |-> FALSE, body |-> FALSE,
          email |-> NotShown, displayName |-> NotShown,
          bodyPlaceholder |-> FALSE, signOutControl |-> FALSE]
    ELSE [mounted |-> TRUE, loadingDiv |-> FALSE, header |-> TRUE, body |-> TRUE,
          email |-> IF u # NoUser THEN u.email ELSE NotShown,
          displayName |-> IF u # NoUser THEN u.displayName ELSE NotShown,
          bodyPlaceholder |-> (u = NoUser),
          signOutControl |-> TRUE]

\* mutant: the "Log Out" button sits inside the `user ?` branch
UserPage_ControlOnlyWithUser(u, l) ==
    IF l
    THEN [mounted |-> TRUE, loadingDiv |-> TRUE, header |-> FALSE, body |-> FALSE,
          email |-> NotShown, displayName |-> NotShown,
          bodyPlaceholder |-> FALSE, signOutControl |-> FALSE]
    ELSE [mounted |-> TRUE, loadingDiv |-> FALSE, header |-> TRUE, body |-> TRUE,
          email |-> IF u # NoUser THEN u.email ELSE NotShown,
          displayName |-> IF u # NoUser THEN OrElse(u.displayName, "N/A")
                          ELSE NotShown,
          bodyPlaceholder |-> (u = NoUser),
          signOutControl |-> (u # NoUser)]

\* the component function: the early return on `loading`, else header + body
UserPage(u, l) ==
    IF l
    THEN [mounted |-> TRUE, loadingDiv |-> TRUE, header |-> FALSE, body |-> FALSE,
          email |-> NotShown, displayName |-> NotShown,
          bodyPlaceholder |-> FALSE, signOutControl |-> FALSE]
    ELSE [mounted |-> TRUE, loadingDiv |-> FALSE, header |-> TRUE, body |-> TRUE,
          email |-> IF u # NoUser THEN u.email ELSE NotShown,
          displayName |-> IF u # NoUser THEN OrElse(u.displayName, "N/A")
                          ELSE NotShown,
          bodyPlaceholder |-> (u = NoUser),
          signOutControl |-> TRUE]

(***************************************************************************)
(* State.                                                                  *)
(***************************************************************************)
VARIABLES
    catalog,       \* the catalog module's exports (mutable JS arrays)
    user,          \* session: the signed-in user, or NoUser
    loading,       \* session: the loading flag
    route,         \* the router's current path
    view,          \* what the panel currently renders
    nInv,          \* number of handleSignOut invocations started so far
    pc,            \* per invocation: "idle", "awaiting", "done"
    call,          \* per invocation: state of its signOut(auth) promise
    ret,           \* per invocation: state of the promise handleSignOut returned
    signOutCalls,  \* per invocation: number of signOut(auth) calls it issued
    navCalls,      \* navigate calls made so far, in order
    logs           \* console.error entries written so far, in order

vars == <<catalog, user, loading, route, view, nInv, pc, call, ret,
          signOutCalls, navCalls, logs>>

session == <<user, loading>>
handler == <<nInv, pc, call, ret, signOutCalls, navCalls, logs>>

Rejected(i) == call[i] \in SignOutErrors
Settled(i) == call[i] = "fulfilled" \/ Rejected(i)

Init ==
    /\ catalog = [columns |-> columns, statusOptions |-> statusOptions]
    /\ user \in Users \cup {NoUser}
    /\ loading \in BOOLEAN
    /\ route = UserPagePath
    /\ view = UserPage(user, loading)
    /\ nInv = 0
    /\ pc = [i \in Invocations |-> "idle"]
    /\ call = [i \in Invocations |-> "none"]
    /\ ret = [i \in Invocations |-> "none"]
    /\ signOutCalls = [i \in Invocations |-> 0]
    /\ navCalls = << >>
    /\ logs = << >>

(***************************************************************************)
(* External collaborators.                                                 *)
(***************************************************************************)
\* The auth context publishes a new session value; a mounted panel, being a
\* consumer of the context, is re-rendered with it.
AuthStateChange(u, l) ==
    /\ <<u, l>> # <<user, loading>>
    /\ user' = u
    /\ loading' = l
    /\ view' = IF view.mounted THEN UserPage(u, l) ELSE view
    /\ UNCHANGED <<catalog, route, handler>>

\* The user comes back to the panel's route; the panel is mounted and rendered.
ReturnToUserPage ==
    /\ route # UserPagePath
    /\ route' = UserPagePath
    /\ view' = UserPage(user, loading)
    /\ UNCHANGED <<catalog, session, handler>>

\* The identity provider settles the promise of one signOut(auth) call.
SignOutSettles(i, outcome) ==
    /\ call[i] = "pending"
    /\ call' = [call EXCEPT ![i] = outcome]
    /\ UNCHANGED <<catalog, session, route, view, nInv, pc, ret, signOutCalls,
                   navCalls, logs>>

(***************************************************************************)
(* handleSignOut.                                                          *)
(***************************************************************************)
\* mutant: an in-flight guard ignores the click while a sign-out is pending
handleSignOut_InFlightGuard ==
    /\ view.signOutControl
    /\ nInv < MaxInvocations
    /\ \A j \in Invocations : pc[j] # "awaiting"
    /\ nInv' = nInv + 1
    /\ pc' = [pc EXCEPT ![nInv + 1] = "awaiting"]
    /\ call' = [call EXCEPT ![nInv + 1] = "pending"]
    /\ ret' = [ret EXCEPT ![nInv + 1] = "pending"]
    /\ signOutCalls' = [signOutCalls EXCEPT ![nInv + 1] = @ + 1]
    /\ UNCHANGED <<catalog, session, route, view, navCalls, logs>>

\* A click on the "Log Out" control: the handler runs up to the await, having
\* issued signOut(auth), and returns a pending promise to its caller.
handleSignOut ==
    /\ view.signOutControl
    /\ nInv < MaxInvocations
    /\ nInv' = nInv + 1
    /\ pc' = [pc EXCEPT ![nInv + 1] = "awaiting"]
    /\ call' = [call EXCEPT ![nInv + 1] = "pending"]
    /\ ret' = [ret EXCEPT ![nInv + 1] = "pending"]
    /\ signOutCalls' = [signOutCalls EXCEPT ![nInv + 1] = @ + 1]
    /\ UNCHANGED <<catalog, session, route, view, navCalls, logs>>

\* mutant: navigates to another path
handleSignOutResume_WrongPath(i) ==
    /\ pc[i] = "awaiting"
    /\ call[i] = "fulfilled"
    /\ navCalls' = Append(navCalls, [inv |-> i, path |-> "/login"])
    /\ route' = "/login"
    /\ view' = Unmounted
    /\ pc' = [pc EXCEPT ![i] = "done"]
    /\ ret' = [ret EXCEPT ![i] = "fulfilled"]
    /\ UNCHANGED <<catalog, session, nInv, call, signOutCalls, logs>>

\* mutant: the `await` is missing, navigate runs while the call is pending
handleSignOutResume_NoAwait(i) ==
    /\ pc[i] = "awaiting"
    /\ call[i] \in {"pending", "fulfilled"}
    /\ navCalls' = Append(navCalls, [inv |-> i, path |-> HomePath])
    /\ route' = HomePath
    /\ view' = Unmounted
    /\ pc' = [pc EXCEPT ![i] = "done"]
    /\ ret' = [ret EXCEPT ![i] = "fulfilled"]
    /\ UNCHANGED <<catalog, session, nInv, call, signOutCalls, logs>>

\* mutant: the panel clears the session user itself after signing out
handleSignOutResume_ClearsUser(i) ==
    /\ pc[i] = "awaiting"
    /\ call[i] = "fulfilled"
    /\ navCalls' = Append(navCalls, [inv |-> i, path |-> HomePath])
    /\ route' = HomePath
    /\ view' = Unmounted
    /\ pc' = [pc EXCEPT ![i] = "done"]
    /\ ret' = [ret EXCEPT ![i] = "fulfilled"]
    /\ user' = NoUser
    /\ UNCHANGED <<catalog, loading, nInv, call, signOutCalls, logs>>

\* The await completed normally: navigate('/home'); the router leaves the
\* panel's route, which takes the panel off screen.
handleSignOutResume(i) ==
    /\ pc[i] = "awaiting"
    /\ call[i] = "fulfilled"
    /\ navCalls' = Append(navCalls, [inv |-> i, path |-> HomePath])
    /\ route' = HomePath
    /\ view' = Unmounted
    /\ pc' = [pc EXCEPT ![i] = "done"]
    /\ ret' = [ret EXCEPT ![i] = "fulfilled"]
    /\ UNCHANGED <<catalog, session, nInv, call, signOutCalls, logs>>

\* mutant: the catch block logs and rethrows
handleSignOutCatch_Rethrow(i) ==
    /\ pc[i] = "awaiting"
    /\ Rejected(i)
    /\ logs' = Append(logs, [inv |-> i, message |-> "Error signing out:",
                             error |-> call[i]])
    /\ pc' = [pc EXCEPT ![i] = "done"]
    /\ ret' = [ret EXCEPT ![i] = "rejected"]
    /\ UNCHANGED <<catalog, session, route, view, nInv, call, signOutCalls,
                   navCalls>>

\* The await threw: the catch block logs the error and swallows it.
handleSignOutCatch(i) ==
    /\ pc[i] = "awaiting"
    /\ Rejected(i)
    /\ logs' = Append(logs, [inv |-> i, message |-> "Error signing out:",
                             error |-> call[i]])
    /\ pc' = [pc EXCEPT ![i] = "done"]
    /\ ret' = [ret EXCEPT ![i] = "fulfilled"]
    /\ UNCHANGED <<catalog, session, route, view, nInv, call, signOutCalls,
                   navCalls>>

Next ==
    \/ \E s \in Sessions : AuthStateChange(s[1], s[2])
    \/ ReturnToUserPage
    \/ handleSignOut
    \/ \E i \in Invocations, o \in {"fulfilled"} \cup SignOutErrors :
           SignOutSettles(i, o)
    \/ \E i \in Invocations : handleSignOutResume(i)
    \/ \E i \in Invocations : handleSignOutCatch(i)

Spec == Init /\ [][Next]_vars

\* The JS event loop runs every queued continuation: a settled promise's
\* reaction is a microtask, and the microtask queue is drained.
FairSpec ==
    /\ Spec
    /\ \A i \in Invocations : WF_vars(handleSignOutResume(i))
    /\ \A i \in Invocations : WF_vars(handleSignOutCatch(i))

(***************************************************************************)
(* Properties.                                                             *)
(***************************************************************************)
\* the navigate calls and the log entries of invocation i, in order
NavsOf(i) == SelectSeq(navCalls, LAMBDA e : e.inv = i)
LogsOf(i) == SelectSeq(logs, LAMBDA e : e.inv = i)

Uids(seq) == {seq[k].uid : k \in 1..Len(seq)}

\* C1: an invocation whose signOut(auth) call resolved makes, once it has
\* finished, exactly one navigate call, with argument '/home', and writes no
\* log entry; before it finishes it has made at most that one call.
C1_SuccessNavigatesHomeOnce ==
    \A i \in Invocations :
        call[i] = "fulfilled" =>
            /\ LogsOf(i) = << >>
            /\ pc[i] = "awaiting" => NavsOf(i) = << >>
            /\ pc[i] = "done" => NavsOf(i) = << [inv |-> i, path |-> "/home"] >>

C1_Witness ==
    \E i \in Invocations :
        /\ pc[i] = "done"
        /\ call[i] = "fulfilled"
        /\ Len(NavsOf(i)) = 1

\* C2 (state part): a finished invocation whose call rejected has made no
\* navigate call, has written exactly one log entry (carrying the error), and
\* its own promise is fulfilled, not rejected: nothing is rethrown.
C2_RejectedOutcome ==
    \A i \in Invocations :
        Rejected(i) =>
            /\ NavsOf(i) = << >>
            /\ pc[i] = "awaiting" => LogsOf(i) = << >> /\ ret[i] = "pending"
            /\ pc[i] = "done" =>
                   /\ LogsOf(i) = << [inv |-> i, message |-> "Error signing out:",
                                      error |-> call[i]] >>
                   /\ ret[i] = "fulfilled"

\* C2 (step part): the step in which the catch block runs changes neither the
\* session, nor the route, nor what the panel renders.
C2_CatchLeavesUi ==
    \A i \in Invocations :
        (pc[i] = "awaiting" /\ pc'[i] = "done" /\ Rejected(i)) =>
            UNCHANGED <<user, loading, route, view>>

\* C2: a rejected sign-out is logged once, never navigates, is not rethrown,
\* and leaves the panel and its UI state as they were.
C2_RejectLogsOnceAndStays == [](C2_RejectedOutcome) /\ [][C2_CatchLeavesUi]_vars

C2_Witness ==
    \E i \in Invocations :
        /\ pc[i] = "done"
        /\ Rejected(i)
        /\ Len(LogsOf(i)) = 1
        /\ view.mounted
        /\ view.signOutControl

\* C3 (state part): whenever loading is true the rendered panel is the loading
\* placeholder alone, whatever the user, and no sign-out can be invoked.
C3_LoadingView ==
    loading =>
        /\ view.mounted =>
               /\ view.loadingDiv
               /\ ~view.header
               /\ ~view.body
               /\ view.email = NotShown
               /\ view.displayName = NotShown
               /\ ~view.bodyPlaceholder
               /\ ~view.signOutControl
        /\ ~ENABLED handleSignOut

\* C3 (step part): a step taken while loading is true issues no sign-out call,
\* and a step that renders the loading placeholder does nothing else: no
\* invocation starts or resumes, nothing is navigated, nothing is logged.
C3_LoadingStep ==
    /\ loading => (nInv' = nInv /\ signOutCalls' = signOutCalls)
    /\ (view' # view /\ view'.loadingDiv) => UNCHANGED <<handler, catalog>>

C4_Original ==
    (view.mounted /\ ~loading /\ user # NoUser) =>
        /\ view.email = user.email
        /\ user.displayName # Undefined => view.displayName = user.displayName
        /\ view.displayName = "N/A" <=> user.displayName = Undefined

\* C4 (amended): with loading false and a user present, the display-name field
\* is the user's displayName when that is a non-empty string and is 'N/A' when
\* it is absent or the empty string; the email is rendered in every case.
C4_DisplayNameFallback ==
    (view.mounted /\ ~loading /\ user # NoUser) =>
        /\ view.email = user.email
        /\ user.displayName \in {Undefined, ""} => view.displayName = "N/A"
        /\ user.displayName \notin {Undefined, ""} =>
               view.displayName = user.displayName

C4_Witness ==
    /\ view.mounted
    /\ ~loading
    /\ user # NoUser
    /\ user.displayName = ""
    /\ view.displayName = "N/A"
    /\ view.email = user.email

\* C5 (state part): statusOptions has exactly four entries with pairwise
\* distinct uids, and the uids are completed, in_progress, pending, cancelled.
C5_StatusOptionsShape ==
    LET so == catalog.statusOptions IN
    /\ Len(so) = 4
    /\ \A j, k \in 1..Len(so) : j # k => so[j].uid # so[k].uid
    /\ Uids(so) = {"completed", "in_progress", "pending", "cancelled"}

\* C5: statusOptions is four entries with distinct uids {completed,
\* in_progress, pending, cancelled}, and no step of the program changes it.
C5_StatusOptionsConstant ==
    [](C5_StatusOptionsShape)
        /\ [][catalog'.statusOptions = catalog.statusOptions]_vars

C5_Witness ==
    /\ Len(catalog.statusOptions) = 4
    /\ catalog.statusOptions[4].uid = "cancelled"
    /\ navCalls # << >>
    /\ logs # << >>

\* C6 (state part): columns has exactly four entries, uids patientName,
\* diagnosisDate, status, actions, every name non-empty; the only column that
\* is no field of a record is 'actions', and 'status' is a field of a record.
C6_ColumnsShape ==
    LET cs == catalog.columns IN
    /\ Len(cs) = 4
    /\ Uids(cs) = {"patientName", "diagnosisDate", "status", "actions"}
    /\ \A k \in 1..Len(cs) : cs[k].name # ""
    /\ {k \in 1..Len(cs) : cs[k].uid \notin AnswerSumRequest} = {4}
    /\ cs[4].uid = "actions"
    /\ "status" \in Uids(cs) \cap AnswerSumRequest

\* C6: columns is a constant sequence of four named entries, three data
\* columns (status among them) and the one action column.
C6_ColumnsConstant ==
    [](C6_ColumnsShape) /\ [][catalog'.columns = catalog.columns]_vars

C6_Witness ==
    /\ Len(catalog.columns) = 4
    /\ catalog.columns[4].uid = "actions"
    /\ catalog.columns[3].uid = "status"
    /\ navCalls # << >>
    /\ logs # << >>

\* C7: whenever the body is rendered it holds the sign-out control; with
\* loading false the body is rendered and the control can be invoked, user or
\* no user; and with loading false and no user the body shows the placeholder
\* text and no user details.
C7_SignOutControlInBody ==
    /\ view.body => view.signOutControl
    /\ (view.mounted /\ ~loading) =>
           /\ view.body
           /\ view.signOutControl
           /\ nInv < MaxInvocations => ENABLED handleSignOut
           /\ user = NoUser =>
                  /\ view.bodyPlaceholder
                  /\ view.email = NotShown
                  /\ view.displayName = NotShown
           /\ user # NoUser => ~view.bodyPlaceholder

C7_Witness ==
    /\ view.mounted
    /\ ~loading
    /\ user = NoUser
    /\ view.bodyPlaceholder
    /\ view.signOutControl
    /\ nInv < MaxInvocations
    /\ ENABLED handleSignOut

\* C8 (step part): a step of the panel (a render on mounting, an invocation
\* of the handler, its success or failure continuation) leaves user and
\* loading alone; a step that changes them is a step of the auth collaborator.
C8_PanelStep ==
    (\/ nInv' # nInv
     \/ pc' # pc
     \/ ret' # ret
     \/ signOutCalls' # signOutCalls
     \/ navCalls' # navCalls
     \/ logs' # logs
     \/ route' # route) => UNCHANGED <<user, loading>>

\* C8: the panel never writes the session: only steps of the auth
\* collaborator change user or loading.
C8_PanelNeverMutatesSession == [][C8_PanelStep]_vars

C8_Witness ==
    /\ user # NoUser
    /\ \E i \in Invocations : pc[i] = "done" /\ call[i] = "fulfilled"
    /\ \E i \in Invocations : pc[i] = "done" /\ Rejected(i)

\* C9: in one invocation the signOut call comes first; while it is pending the
\* invocation is suspended and has neither navigated nor logged; it has
\* navigated only if the call resolved and logged only if the call rejected.
C9_AwaitOrders ==
    \A i \in Invocations :
        /\ pc[i] # "idle" => signOutCalls[i] >= 1 /\ call[i] # "none"
        /\ pc[i] = "idle" => NavsOf(i) = << >> /\ LogsOf(i) = << >>
        /\ call[i] = "pending" =>
               /\ pc[i] = "awaiting"
               /\ NavsOf(i) = << >>
               /\ LogsOf(i) = << >>
        /\ NavsOf(i) # << >> => call[i] = "fulfilled"
        /\ LogsOf(i) # << >> => Rejected(i)

C9_Witness ==
    \E i, j \in Invocations :
        /\ pc[i] = "awaiting"
        /\ call[i] = "pending"
        /\ pc[j] = "done"
        /\ NavsOf(j) # << >>

\* C10 (state part): every started invocation has issued exactly one signOut
\* call; a finished one has exactly one outcome (a navigate to '/home' or a
\* log entry), an unfinished one has none, so the outcomes number the finished
\* invocations; a click is accepted while other invocations are in flight.
C10_OneOutcomeEach ==
    /\ \A i \in Invocations :
           /\ signOutCalls[i] = IF pc[i] = "idle" THEN 0 ELSE 1
           /\ call[i] = "pending" => pc[i] = "awaiting"
           /\ Len(NavsOf(i)) + Len(LogsOf(i)) = IF pc[i] = "done" THEN 1 ELSE 0
           /\ \A k \in 1..Len(NavsOf(i)) : NavsOf(i)[k].path = "/home"
    /\ Len(navCalls) + Len(logs) = Cardinality({i \in Invocations : pc[i] = "done"})
    /\ (view.signOutControl /\ nInv < MaxInvocations) => ENABLED handleSignOut

\* C10: overlapping invocations each issue one signOut call and, once that
\* call has settled, each ends with exactly one outcome; an invocation whose
\* call stays pending has no outcome.
C10_EachInvocationOneOutcome ==
    /\ [](C10_OneOutcomeEach)
    /\ \A i \in Invocations : Settled(i) ~> (pc[i] = "done")

C10_Witness ==
    \E i, j, k \in Invocations :
        /\ i < j
        /\ pc[i] = "awaiting" /\ Rejected(i)
        /\ pc[j] = "awaiting" /\ call[j] = "pending"
        /\ pc[k] = "done" /\ Len(NavsOf(k)) = 1

=============================================================================
